---- MODULE Spec2Model ----
(***************************************************************************)
(* Model of the pvdot rebalancing strategy (pkg/strategy/pvd/strategy.go). *)
(*                                                                         *)
(* A fixedpoint.Value is modelled as an integer number of units of         *)
(* 1/Scale, so the value 1.0 is Scale units.  Maps are functions whose     *)
(* DOMAIN is the key set; reading a missing key yields the zero value.     *)
(***************************************************************************)
EXTENDS Integers, Sequences, FiniteSets, TLC

\* ------------------------------------------------------------------ bounds
\* units per 1.0 of a fixedpoint.Value
Scale == 10
\* closed klines delivered to the strategy in one behaviour
MaxTicks == 2
\* largest value (in units) of a map handed to Normalize on its own
MaxNormVal == 3

\* --------------------------------------------------------------- fixedpoint
One == Scale

Abs(x) == IF x < 0 THEN -x ELSE x

Sign(x) == IF x < 0 THEN -1 ELSE IF x > 0 THEN 1 ELSE 0

Compare(x, y) == IF x < y THEN -1 ELSE IF x > y THEN 1 ELSE 0

Add(x, y) == x + y

Sub(x, y) == x - y

\* integer quotient rounded toward zero
Trunc(a, b) == IF (a < 0) = (b < 0) THEN Abs(a) \div Abs(b) ELSE -(Abs(a) \div Abs(b))

Mul(x, y) == Trunc(x * y, Scale)

\* the values a division by zero may leave in its result
PosInf == 100 * Scale
DivZeroOutcomes == {-PosInf, 0, PosInf}

\* dz is the value the division produces when the divisor is zero
Div(x, y, dz) == IF y = 0 THEN dz ELSE Trunc(x * Scale, y)

\* ------------------------------------------------------------------- maps
EmptyMap == [k \in {} |-> 0]

Get(mp, k) == IF k \in DOMAIN mp THEN mp[k] ELSE 0

\* the iteration orders of a range loop over a map with key set K
Orders(K) == {o \in [1..Cardinality(K) -> K] : \A i, j \in 1..Cardinality(K) : o[i] = o[j] => i = j}

\* -------------------------------------------------------------- vector math
RECURSIVE SumOver(_, _)
SumOver(mp, K) ==
    IF K = {} THEN 0
    ELSE LET k == CHOOSE e \in K : TRUE IN Add(SumOver(mp, K \ {k}), mp[k])

Sum(mp) == SumOver(mp, DOMAIN mp)

\* Normalize returning the map it has not filled yet when the sum is already 1
NormalizeReturnsFresh(mp, dz) ==
    LET sum == Sum(mp) IN
    IF sum = One THEN EmptyMap
    ELSE [k \in DOMAIN mp |-> Div(mp[k], sum, dz)]

Normalize(mp, dz) ==
    LET sum == Sum(mp) IN
    IF sum = One THEN mp
    ELSE [k \in DOMAIN mp |-> Div(mp[k], sum, dz)]

ElementwiseProduct(m1, m2) == [k \in DOMAIN m1 |-> Mul(m1[k], Get(m2, k))]

\* ----------------------------------------------------------- configuration
BaseCurrency == "USDT"
Quotes == {"BTC", "ETH"}
Currencies == Quotes \cup {BaseCurrency}

\* the json configurations a Strategy may be loaded with
Configs ==
    [Threshold : {-1, 0, 1}, MaxAmount : {-One, 0, One},
     IgnoreLocked : BOOLEAN, DryRun : BOOLEAN, BaseCurrency : {BaseCurrency}]

\* ------------------------------------------------------------- environment
\* answers of session.Exchange.QueryTicker, keyed by symbol
TickerPrices == {One, 2 * One}
TickerResults == {[ok |-> FALSE, Last |-> 0]} \cup {[ok |-> TRUE, Last |-> p] : p \in TickerPrices}
Symbols == {c \o BaseCurrency : c \in Quotes}
Tickers == [Symbols -> TickerResults]

\* answers of s.set.TargetWeights()
\* (a quote currency at 0.4 or 0.6, the base currency at 0.4)
WeightVals == {(2 * Scale) \div 5, (3 * Scale) \div 5}
KeySets == {K \in SUBSET Currencies : Cardinality(K) >= 2 /\ "BTC" \in K}
TargetWeightMaps ==
    {w \in UNION {[K -> WeightVals] : K \in KeySets} :
        BaseCurrency \in DOMAIN w => w[BaseCurrency] = (2 * Scale) \div 5}

\* answers of session.Account.Balances()
ZeroBalance == [Available |-> 0, Locked |-> 0]
HeldBalance == [Available |-> 4 * One, Locked |-> 2 * One]
BalanceMaps ==
    {[c \in K |-> HeldBalance] : K \in SUBSET Currencies}
        \cup {[c \in Currencies |-> ZeroBalance]}

\* the smaller environment of the closed-kline callback
TickTickers == [Symbols -> {[ok |-> FALSE, Last |-> 0], [ok |-> TRUE, Last |-> One]}]
TickWeightMaps ==
    {[c \in {"BTC", BaseCurrency} |-> IF c = "BTC" THEN (3 * Scale) \div 5 ELSE (2 * Scale) \div 5],
     [c \in Quotes |-> Scale \div 2]}
TickBalanceMaps == {EmptyMap, [c \in Currencies |-> HeldBalance]}

\* ------------------------------------------------------------------ state
VARIABLES
    pc,             \* position in the strategy's life cycle, or of a direct call
    s,              \* the Strategy struct
    ticks,          \* closed klines handled so far
    env,            \* what the last rebalance read: weights, ticker, balances, iteration orders
    res,            \* what the last rebalance computed
    submitCalls,    \* calls of orderExecutor.SubmitOrders
    notifications,  \* calls of s.Notifiability.Notify
    m,              \* argument of a direct call of Normalize
    normalized,     \* Normalize(m)
    renormalized    \* Normalize(Normalize(m))

vars == <<pc, s, ticks, env, res, submitCalls, notifications, m, normalized, renormalized>>

\* ------------------------------------------------------------------ types
BalanceOf(balances, currency) ==
    IF currency \in DOMAIN balances THEN balances[currency] ELSE ZeroBalance

Total(b) == Add(b.Available, b.Locked)

\* quantity = min(quantity, maxAmount / price)
AdjustQuantityByMaxAmount(quantity, currentPrice, maxAmount, dz) ==
    LET limit == Div(maxAmount, currentPrice, dz) IN
    IF quantity > limit THEN limit ELSE quantity

\* ---------------------------------------------------------------- Strategy
ValidateErr(st) == Sign(st.Threshold) < 0 \/ Sign(st.MaxAmount) < 0

\* getPrices going on to the next currency after a failed lookup
RECURSIVE getPricesKeepsGoing(_, _, _, _, _, _)
getPricesKeepsGoing(st, tk, ord, i, prices, lookups) ==
    IF i > Len(ord)
    THEN [prices |-> prices, err |-> FALSE, lookups |-> lookups, notified |-> 0]
    ELSE LET currency == ord[i] IN
         IF currency = st.BaseCurrency
         THEN getPricesKeepsGoing(st, tk, ord, i + 1, prices @@ (currency :> One), lookups)
         ELSE LET symbol == currency \o st.BaseCurrency IN
              IF ~tk[symbol].ok
              THEN [getPricesKeepsGoing(st, tk, ord, i + 1, prices, Append(lookups, symbol))
                        EXCEPT !.err = TRUE, !.notified = 1]
              ELSE getPricesKeepsGoing(st, tk, ord, i + 1,
                                       prices @@ (currency :> tk[symbol].Last),
                                       Append(lookups, symbol))

RECURSIVE getPricesFrom(_, _, _, _, _, _)
getPricesFrom(st, tk, ord, i, prices, lookups) ==
    IF i > Len(ord)
    THEN [prices |-> prices, err |-> FALSE, lookups |-> lookups, notified |-> 0]
    ELSE LET currency == ord[i] IN
         IF currency = st.BaseCurrency
         THEN getPricesFrom(st, tk, ord, i + 1, prices @@ (currency :> One), lookups)
         ELSE LET symbol == currency \o st.BaseCurrency IN
              IF ~tk[symbol].ok
              THEN [prices |-> prices, err |-> TRUE,
                    lookups |-> Append(lookups, symbol), notified |-> 1]
              ELSE getPricesFrom(st, tk, ord, i + 1,
                                 prices @@ (currency :> tk[symbol].Last),
                                 Append(lookups, symbol))

\* ord is the order in which the range loop visits targetWeights
getPrices(st, tk, targetWeights, ord) == getPricesFrom(st, tk, ord, 1, EmptyMap, <<>>)

getQuantities(st, balances, targetWeights) ==
    [currency \in DOMAIN targetWeights |->
        IF st.IgnoreLocked
        THEN Total(BalanceOf(balances, currency))
        ELSE BalanceOf(balances, currency).Available]

\* the loop without its base-currency test
skipsCurrencyNever(st, currency) == FALSE

skipsCurrency(st, currency) == currency = st.BaseCurrency

\* the threshold test with <= in place of <
belowThresholdInclusive(st, weightDifference) == Compare(Abs(weightDifference), st.Threshold) <= 0

belowThreshold(st, weightDifference) == Compare(Abs(weightDifference), st.Threshold) < 0

rawQuantity(weightDifference, totalValue, currentPrice, dz) ==
    Div(Mul(weightDifference, totalValue), currentPrice, dz)

\* the side test with the sign inverted
orderSideInverted(quantity) == IF Sign(quantity) > 0 THEN "SELL" ELSE "BUY"

orderSide(quantity) == IF Sign(quantity) < 0 THEN "SELL" ELSE "BUY"

unsignedQuantity(quantity) == IF Sign(quantity) < 0 THEN Abs(quantity) ELSE quantity

\* the order built without the MaxAmount adjustment
capQuantityNever(st, quantity, currentPrice, dz) == quantity

capQuantity(st, quantity, currentPrice, dz) ==
    IF Sign(st.MaxAmount) > 0
    THEN AdjustQuantityByMaxAmount(quantity, currentPrice, st.MaxAmount, dz)
    ELSE quantity

\* the body of the loop for one currency: the orders it appends
ordersFor(st, prices, currentWeights, totalValue, targetWeights, currency, dz) ==
    IF skipsCurrency(st, currency) THEN <<>>
    ELSE LET currentPrice == Get(prices, currency)
             weightDifference == Sub(targetWeights[currency], Get(currentWeights, currency))
             quantity == rawQuantity(weightDifference, totalValue, currentPrice, dz)
         IN  IF belowThreshold(st, weightDifference) THEN <<>>
             ELSE <<[Symbol |-> currency \o st.BaseCurrency,
                     Side |-> orderSide(quantity),
                     Type |-> "MARKET",
                     Quantity |-> capQuantity(st, unsignedQuantity(quantity), currentPrice, dz)]>>

RECURSIVE generateFrom(_, _, _, _, _, _, _, _)
generateFrom(st, prices, currentWeights, totalValue, targetWeights, ord, i, dz) ==
    IF i > Len(ord) THEN <<>>
    ELSE ordersFor(st, prices, currentWeights, totalValue, targetWeights, ord[i], dz)
            \o generateFrom(st, prices, currentWeights, totalValue, targetWeights, ord, i + 1, dz)

\* ord is the order in which the range loop visits targetWeights
generateSubmitOrders(st, prices, marketValues, targetWeights, ord, dz) ==
    generateFrom(st, prices, Normalize(marketValues, dz), Sum(marketValues),
                 targetWeights, ord, 1, dz)

\* a division of the decision step whose divisor is zero
dividesByZero(st, prices, marketValues, targetWeights, dz) ==
    \/ DOMAIN marketValues # {} /\ Sum(marketValues) = 0
    \/ \E currency \in DOMAIN targetWeights :
          /\ ~skipsCurrency(st, currency)
          /\ ~belowThreshold(st, Sub(targetWeights[currency],
                                     Get(Normalize(marketValues, dz), currency)))
          /\ Get(prices, currency) = 0

\* rebalance without its DryRun return
submitsAlways(st) == TRUE

submits(st) == ~st.DryRun

\* rebalance once getPrices has returned p: balances, market values, orders, submission
proceed(st, p, targetWeights, balances, ordOrders, dz) ==
    LET quantities == getQuantities(st, balances, targetWeights)
        marketValues == ElementwiseProduct(p.prices, quantities)
    IN  [err |-> p.err, prices |-> p.prices, lookups |-> p.lookups, notified |-> p.notified,
         quantities |-> quantities, marketValues |-> marketValues,
         currentWeights |-> Normalize(marketValues, dz),
         totalValue |-> Sum(marketValues),
         orders |-> generateSubmitOrders(st, p.prices, marketValues, targetWeights, ordOrders, dz),
         submitted |-> submits(st),
         divByZero |-> dividesByZero(st, p.prices, marketValues, targetWeights, dz)]

\* rebalance logging the getPrices error without returning
abortTickNoReturn(st, p, targetWeights, balances, ordOrders, dz) ==
    proceed(st, p, targetWeights, balances, ordOrders, dz)

\* rebalance when getPrices has returned p with an error: it returns at once
abortTick(st, p, targetWeights, balances, ordOrders, dz) ==
    [err |-> TRUE, prices |-> p.prices, lookups |-> p.lookups, notified |-> p.notified,
     quantities |-> EmptyMap, marketValues |-> EmptyMap, currentWeights |-> EmptyMap,
     totalValue |-> 0, orders |-> <<>>, submitted |-> FALSE, divByZero |-> FALSE]

rebalance(st, targetWeights, tk, balances, ordPrices, ordOrders, dz) ==
    LET p == getPrices(st, tk, targetWeights, ordPrices) IN
    IF p.err
    THEN abortTick(st, p, targetWeights, balances, ordOrders, dz)
    ELSE proceed(st, p, targetWeights, balances, ordOrders, dz)

\* ----------------------------------------------------------------- actions
NoEnv == [targetWeights |-> EmptyMap, ticker |-> EmptyMap, balances |-> EmptyMap,
          ordPrices |-> <<>>, ordOrders |-> <<>>, dz |-> 0]
NoRes == [err |-> FALSE, prices |-> EmptyMap, lookups |-> <<>>, notified |-> 0,
          quantities |-> EmptyMap, marketValues |-> EmptyMap, currentWeights |-> EmptyMap,
          totalValue |-> 0, orders |-> <<>>, submitted |-> FALSE, divByZero |-> FALSE]

Init ==
    /\ pc = "loaded"
    /\ s \in Configs
    /\ ticks = 0
    /\ env = NoEnv
    /\ res = NoRes
    /\ submitCalls = 0
    /\ notifications = 0
    /\ m = EmptyMap
    /\ normalized = EmptyMap
    /\ renormalized = EmptyMap

Validate ==
    /\ pc = "loaded"
    /\ pc' = IF ValidateErr(s) THEN "invalid" ELSE "validated"
    /\ UNCHANGED <<s, ticks, env, res, submitCalls, notifications, m, normalized, renormalized>>

\* initErr: s.set.InitIndicators returned an error
Run(initErr) ==
    /\ pc = "validated"
    /\ pc' = IF initErr THEN "failed" ELSE "running"
    /\ UNCHANGED <<s, ticks, env, res, submitCalls, notifications, m, normalized, renormalized>>

\* the effect of one call of rebalance on the state; the outcome of a division
\* by zero is drawn only when the call divides by zero
Rebalanced(targetWeights, tk, balances, ordPrices, ordOrders) ==
    /\ \E dz \in DivZeroOutcomes :
          /\ res' = rebalance(s, targetWeights, tk, balances, ordPrices, ordOrders, dz)
          /\ res'.divByZero \/ dz = 0
          /\ env' = [targetWeights |-> targetWeights, ticker |-> tk, balances |-> balances,
                     ordPrices |-> ordPrices, ordOrders |-> ordOrders, dz |-> dz]
    /\ submitCalls' = submitCalls + (IF res'.submitted THEN 1 ELSE 0)
    /\ notifications' = notifications + res'.notified

\* the callback registered by Run: s.set.Update(kline), then s.rebalance
OnKLineClosed ==
    /\ pc = "running"
    /\ ticks < MaxTicks
    /\ \E targetWeights \in TickWeightMaps, tk \in TickTickers, balances \in TickBalanceMaps :
          \E ordPrices, ordOrders \in Orders(DOMAIN targetWeights) :
             Rebalanced(targetWeights, tk, balances, ordPrices, ordOrders)
    /\ ticks' = ticks + 1
    /\ UNCHANGED <<pc, s, m, normalized, renormalized>>

Next == Validate \/ (\E initErr \in BOOLEAN : Run(initErr)) \/ OnKLineClosed

Spec == Init /\ [][Next]_vars

\* ----------------------------------------------- one rebalance, all inputs
InitRebalance ==
    /\ pc = "rebalance"
    /\ s \in {st \in Configs : ~ValidateErr(st)}
    /\ ticks = 0
    /\ env \in [targetWeights : TargetWeightMaps, ticker : {tk \in Tickers : \A y \in Symbols : tk[y].ok}, balances : BalanceMaps,
                ordPrices : {<<>>}, ordOrders : {<<>>}, dz : {0}]
    /\ res = NoRes
    /\ submitCalls = 0
    /\ notifications = 0
    /\ m = EmptyMap
    /\ normalized = EmptyMap
    /\ renormalized = EmptyMap

Rebalance ==
    /\ pc = "rebalance"
    /\ \E ordPrices, ordOrders \in Orders(DOMAIN env.targetWeights) :
          Rebalanced(env.targetWeights, env.ticker, env.balances, ordPrices, ordOrders)
    /\ pc' = "rebalanced"
    /\ ticks' = ticks + 1
    /\ UNCHANGED <<s, m, normalized, renormalized>>

NextRebalance == Rebalance

SpecRebalance == InitRebalance /\ [][NextRebalance]_vars

\* ------------------------------------------------- getPrices, called alone
InitPrices ==
    /\ pc = "getPrices"
    /\ s \in {st \in Configs : ~ValidateErr(st)}
    /\ ticks = 0
    /\ env \in [targetWeights : TargetWeightMaps, ticker : Tickers, balances : {EmptyMap},
                ordPrices : {<<>>}, ordOrders : {<<>>}, dz : {0}]
    /\ res = NoRes
    /\ submitCalls = 0
    /\ notifications = 0
    /\ m = EmptyMap
    /\ normalized = EmptyMap
    /\ renormalized = EmptyMap

GetPrices ==
    /\ pc = "getPrices"
    /\ \E ord \in Orders(DOMAIN env.targetWeights) :
          LET p == getPrices(s, env.ticker, env.targetWeights, ord) IN
          /\ env' = [env EXCEPT !.ordPrices = ord]
          /\ res' = [NoRes EXCEPT !.prices = p.prices, !.err = p.err,
                                  !.lookups = p.lookups, !.notified = p.notified]
          /\ notifications' = notifications + p.notified
    /\ pc' = "gotPrices"
    /\ UNCHANGED <<s, ticks, submitCalls, m, normalized, renormalized>>

NextPrices == GetPrices

SpecPrices == InitPrices /\ [][NextPrices]_vars

\* ------------------------------------------------- Normalize, called alone
NormalizeInputs == UNION {[K -> 0..MaxNormVal] : K \in SUBSET Currencies \ {{}}}

InitNormalize ==
    /\ pc = "normalize"
    /\ s \in {st \in Configs : st.Threshold = 0 /\ st.MaxAmount = 0 /\ ~st.IgnoreLocked /\ ~st.DryRun}
    /\ ticks = 0
    /\ env = NoEnv
    /\ res = NoRes
    /\ submitCalls = 0
    /\ notifications = 0
    /\ m \in NormalizeInputs
    /\ normalized = EmptyMap
    /\ renormalized = EmptyMap

NormalizeTwice ==
    /\ pc = "normalize"
    /\ \E dz \in DivZeroOutcomes :
          /\ normalized' = Normalize(m, dz)
          /\ renormalized' = Normalize(Normalize(m, dz), dz)
    /\ pc' = "normalized"
    /\ UNCHANGED <<s, ticks, env, res, submitCalls, notifications, m>>

NextNormalize == NormalizeTwice

SpecNormalize == InitNormalize /\ [][NextNormalize]_vars

\* ================================================================== claims
\* a rebalance has run to its end
Ran == ticks > 0

\* the currencies generateSubmitOrders may trade
Traded == DOMAIN env.targetWeights \ {s.BaseCurrency}

SymbolOf(c) == c \o s.BaseCurrency

HasOrder(c) == \E i \in 1..Len(res.orders) : res.orders[i].Symbol = SymbolOf(c)

Deviation(c) == env.targetWeights[c] - Get(res.currentWeights, c)

\* the uncapped quantity |deviation * TotalValue / price|
Uncapped(c) == Abs(Div(Mul(Deviation(c), res.totalValue), res.prices[c], env.dz))

\* ---- C1
\* C1: for every non-base currency of the target weights, no order is emitted
\* when |target - current| < Threshold, and an order is emitted when
\* |target - current| >= Threshold, equality included.
C1_ThresholdIsStrict ==
    (Ran /\ ~res.err) =>
        \A c \in Traded :
            /\ Abs(Deviation(c)) < s.Threshold => ~HasOrder(c)
            /\ Abs(Deviation(c)) >= s.Threshold => HasOrder(c)

C1_Witness ==
    /\ Ran /\ ~res.err /\ s.Threshold > 0
    /\ \E c \in Traded : Abs(Deviation(c)) = s.Threshold /\ HasOrder(c)
    /\ \E c \in Traded : Abs(Deviation(c)) < s.Threshold /\ ~HasOrder(c)

\* ---- C2
\* a ticker lookup that the tick needs fails
LookupFails(e) ==
    \E c \in DOMAIN e.targetWeights \ {BaseCurrency} : ~e.ticker[c \o BaseCurrency].ok

ResolvedPrices(e) ==
    [c \in DOMAIN e.targetWeights |->
        IF c = BaseCurrency THEN One ELSE e.ticker[c \o BaseCurrency].Last]

FullPipelineOrders(st, e) ==
    generateSubmitOrders(st, ResolvedPrices(e),
        ElementwiseProduct(ResolvedPrices(e), getQuantities(st, e.balances, e.targetWeights)),
        e.targetWeights, e.ordOrders, e.dz)

\* C2: a tick in which a needed price lookup fails produces no orders, does not
\* call SubmitOrders and notifies the failure; the tick after a failed tick, when
\* its lookups succeed, runs the whole pipeline and submits as if nothing had failed.
C2_FailedTickIsSkipped ==
    [][ticks' = ticks + 1 =>
          /\ LookupFails(env') =>
                /\ res'.err
                /\ res'.orders = <<>>
                /\ submitCalls' = submitCalls
                /\ notifications' = notifications + 1
          /\ (res.err /\ ~LookupFails(env')) =>
                /\ ~res'.err
                /\ res'.orders = FullPipelineOrders(s, env')
                /\ submitCalls' = submitCalls + (IF s.DryRun THEN 0 ELSE 1)
                /\ notifications' = notifications]_vars

C2_Witness ==
    /\ ticks = 2 /\ notifications = 1 /\ ~res.err
    /\ res.orders # <<>> /\ submitCalls = 1

\* ---- C3
\* C3: a tick computes the same list of orders whether dryRun is true or false,
\* and with dryRun = true SubmitOrders is never called.
C3_DryRunOnlySkipsSubmit ==
    Ran =>
        /\ res.orders = rebalance([s EXCEPT !.DryRun = ~s.DryRun], env.targetWeights, env.ticker,
                                  env.balances, env.ordPrices, env.ordOrders, env.dz).orders
        /\ s.DryRun => submitCalls = 0 /\ ~res.submitted

C3_Witness == ticks = MaxTicks /\ s.DryRun /\ res.orders # <<>> /\ submitCalls = 0

\* ---- C4
\* C4: with MaxAmount > 0 every order has quantity * price <= MaxAmount and a
\* quantity no larger than the uncapped one; with MaxAmount = 0 the quantity is
\* the uncapped one.
C4_CapShrinks ==
    (Ran /\ ~res.err) =>
        \A c \in Traded : \A i \in 1..Len(res.orders) :
            res.orders[i].Symbol = SymbolOf(c) =>
                /\ s.MaxAmount > 0 =>
                      /\ res.orders[i].Quantity * res.prices[c] <= s.MaxAmount * Scale
                      /\ res.orders[i].Quantity <= Uncapped(c)
                /\ s.MaxAmount = 0 => res.orders[i].Quantity = Uncapped(c)

C4_Witness ==
    /\ Ran /\ ~res.err /\ s.MaxAmount > 0
    /\ \E c \in Traded : \E i \in 1..Len(res.orders) :
          /\ res.orders[i].Symbol = SymbolOf(c)
          /\ res.orders[i].Quantity > 0
          /\ res.orders[i].Quantity < Uncapped(c)

\* ---- C5
\* C5: every emitted order has a quantity strictly greater than 0, for every
\* configuration that passes Validate.
C5_QuantityPositive ==
    (Ran /\ ~ValidateErr(s)) => \A i \in 1..Len(res.orders) : res.orders[i].Quantity > 0

\* ---- C6
\* C6: with no cap, a non-base currency whose deviation passes the threshold gets
\* a market order for c+base of quantity |(target - current) * TotalValue / price|,
\* buy when the raw quantity is positive, sell when negative; current is the
\* normalized market value, TotalValue the sum of the market values.
C6_OrderContents ==
    (Ran /\ ~res.err /\ s.MaxAmount = 0) =>
        /\ res.totalValue = Sum(res.marketValues)
        /\ \A c \in Traded :
              /\ res.marketValues[c] = Mul(res.prices[c], res.quantities[c])
              /\ res.totalValue # 0 =>
                    res.currentWeights[c] =
                        IF res.totalValue = One THEN res.marketValues[c]
                        ELSE Trunc(res.marketValues[c] * Scale, res.totalValue)
              /\ Abs(Deviation(c)) >= s.Threshold =>
                    LET raw == Div(Mul(Deviation(c), res.totalValue), res.prices[c], env.dz) IN
                    \E i \in 1..Len(res.orders) :
                        /\ res.orders[i].Symbol = SymbolOf(c)
                        /\ res.orders[i].Type = "MARKET"
                        /\ res.orders[i].Quantity = Abs(raw)
                        /\ raw > 0 => res.orders[i].Side = "BUY"
                        /\ raw < 0 => res.orders[i].Side = "SELL"

\* target 0.6, current 0.5: a buy of 0.1 * TotalValue / price
C6_Witness ==
    /\ Ran /\ ~res.err /\ s.MaxAmount = 0
    /\ \E c \in Traded : \E i \in 1..Len(res.orders) :
          /\ env.targetWeights[c] = (3 * Scale) \div 5
          /\ res.currentWeights[c] = Scale \div 2
          /\ res.orders[i].Symbol = SymbolOf(c)
          /\ res.orders[i].Side = "BUY"
          /\ res.orders[i].Quantity = Trunc(Trunc(1 * res.totalValue, Scale) * Scale, res.prices[c])
          /\ res.orders[i].Quantity > 0
    /\ \E i \in 1..Len(res.orders) : res.orders[i].Side = "SELL" /\ res.orders[i].Quantity > 0

\* ---- C7
\* C7: each order of a tick is for c+base with c a non-base key of the target
\* weights, no two orders of a tick share a currency, and the base currency gets
\* no order even when it is a key and its weight deviates past the threshold.
C7_OnlyQuotesTraded ==
    Ran =>
        /\ \A i \in 1..Len(res.orders) : \E c \in Traded : res.orders[i].Symbol = SymbolOf(c)
        /\ \A i, j \in 1..Len(res.orders) :
              res.orders[i].Symbol = res.orders[j].Symbol => i = j
        /\ ~HasOrder(s.BaseCurrency)

C7_Witness ==
    /\ Ran /\ ~res.err /\ s.Threshold > 0
    /\ s.BaseCurrency \in DOMAIN env.targetWeights
    /\ Abs(Deviation(s.BaseCurrency)) > s.Threshold
    /\ Len(res.orders) = 2

\* ---- C8
\* C8 as stated: for a non-empty map with positive sum, normalizing twice gives
\* key by key what normalizing once gives, and a map of sum 1 comes back unchanged.
C8_Idempotent ==
    (pc = "normalized" /\ Sum(m) > 0) =>
        /\ renormalized = normalized
        /\ Sum(m) = One => normalized = m

\* C8 amended: normalizing twice gives what normalizing once gives whenever the
\* values of the once-normalized map sum to exactly 1, and a map of sum 1 comes
\* back unchanged.
C8_IdempotentWhenExact ==
    (pc = "normalized" /\ Sum(m) > 0) =>
        /\ Sum(normalized) = One => renormalized = normalized
        /\ Sum(m) = One => normalized = m

C8_Witness ==
    /\ pc = "normalized" /\ Sum(m) > 0 /\ Sum(m) # One
    /\ Sum(normalized) = One /\ renormalized = normalized /\ normalized # m

\* ---- C9
\* position in the iteration of the first currency whose lookup fails,
\* one past the end when none does
FirstFailure ==
    LET ord == env.ordPrices
        failing == {i \in 1..Len(ord) :
                       ord[i] # s.BaseCurrency /\ ~env.ticker[SymbolOf(ord[i])].ok}
    IN  IF failing = {} THEN Len(ord) + 1
        ELSE CHOOSE i \in failing : \A j \in failing : i <= j

\* positions whose currency is looked up: up to and including the first failure
LookedUp ==
    {i \in 1..Len(env.ordPrices) : i <= FirstFailure /\ env.ordPrices[i] # s.BaseCurrency}

\* C9: no lookup is issued after the first failed one; the call returns the error
\* with exactly the currencies resolved before the failure, the base currency,
\* if among them, at exactly 1 and without a lookup.
C9_FailFast ==
    pc = "gotPrices" =>
        LET ord == env.ordPrices IN
        /\ res.err = (FirstFailure <= Len(ord))
        /\ DOMAIN res.prices = {ord[i] : i \in 1..(FirstFailure - 1)}
        /\ \A c \in DOMAIN res.prices :
              res.prices[c] = IF c = s.BaseCurrency THEN One ELSE env.ticker[SymbolOf(c)].Last
        /\ Len(res.lookups) = Cardinality(LookedUp)
        /\ \A i, j \in 1..Len(res.lookups) : res.lookups[i] = res.lookups[j] => i = j
        /\ \A i \in 1..Len(res.lookups) :
              /\ res.lookups[i] # SymbolOf(s.BaseCurrency)
              /\ \E k \in LookedUp : res.lookups[i] = SymbolOf(ord[k])
        /\ res.err => res.lookups[Len(res.lookups)] = SymbolOf(ord[FirstFailure])

\* a failure with the base currency resolved before it and a currency after it
\* whose lookup would have succeeded
C9_Witness ==
    /\ pc = "gotPrices" /\ res.err
    /\ s.BaseCurrency \in DOMAIN res.prices
    /\ FirstFailure < Len(env.ordPrices)
    /\ \E i \in (FirstFailure + 1)..Len(env.ordPrices) :
          /\ env.ordPrices[i] # s.BaseCurrency
          /\ env.ticker[SymbolOf(env.ordPrices[i])].ok
          /\ env.ordPrices[i] \notin DOMAIN res.prices

\* ---- C10
\* C10: once the prices are resolved and positive, the rest of the tick never
\* divides by zero, whatever the non-negative balances, empty or zero included.
C10_NoDivisionByZero ==
    (Ran /\ ~res.err /\ \A c \in DOMAIN res.prices : res.prices[c] > 0) => ~res.divByZero

====
